---- MODULE Spec2Model ----
(***************************************************************************)
(* A model of the Drawer class of src/src/drawer.js (the class that the    *)
(* file exports, lines 430-960): the gesture handlers _down/_move/_up, the *)
(* release velocity, open/close/toggle, the side and size setters and the  *)
(* frame-driven update().  The release handler of the file's earlier class *)
(* (lines 1-424) is modelled in a section of its own.                      *)
(*                                                                         *)
(* Positions are CSS pixels.  Values the code computes by division         *)
(* (velocity, duration, eased position) are exact rationals <<n, d>> with  *)
(* d > 0 in lowest terms; JavaScript's NaN and the two infinities are      *)
(* separate values.  Time is the millisecond clock read by moment().       *)
(***************************************************************************)
EXTENDS Integers, Sequences, FiniteSets, TLC

\* ------------------------------------------------------------ bounds
\* the clock stops advancing at MaxTime
MaxTime == 120
\* a drag records at most MaxSamples samples
MaxSamples == 3
\* at most MaxFrames frame callbacks are left pending
MaxFrames == 2
\* a run has at most MaxPresses presses, MaxCalls calls of open/close/toggle
\* and MaxSets assignments to side or size, and MaxOps of these altogether
MaxPresses == 2
MaxCalls == 1
MaxSets == 1
MaxOps == 2

\* ------------------------------------------------- program constants
\* options.timeRecent || 100
TimeRecent == 100
\* options.threshold || 10
Threshold == 10
\* options.barSize || 20
BarSize == 20
\* options.minVelocity || 0.5, as the fraction 1/2
MinVelocityNum == 1
MinVelocityDen == 2
\* window.innerWidth, window.innerHeight and the parent's width
InnerWidth == 60
InnerHeight == 60

\* ------------------------------------------------------------ inputs
Sides == {"left", "right", "top", "bottom"}
\* options.side of the drawers that are constructed; the other sides are
\* reached by assigning to side
OptionSides == {"left", "bottom"}
\* the values that are assigned to side: the four sides and one that is none
SideValues == Sides \cup {"diagonal"}
\* options.size of the drawers that are constructed
Sizes == {40}
\* the values that are assigned to size
SizeValues == {20}
\* this._size of a drawer constructed without options.size (a falsy value)
NoSize == 0
\* the extent the content gives the div when its width or height is auto,
\* at construction and after the content has changed
Contents == {40}
ContentValues == {20}
\* options.duration of the drawers that are constructed
Durations == {120}
\* options.ease: Penner.linear (the default) or Penner.easeInQuad
Eases == {"linear"}
\* pageX / pageY of the pointer events that are delivered
Coords == {0, 5, 10, 30, 50, 70}
Events == {[pageX |-> c, pageY |-> c] : c \in Coords}
\* the clock advances by one of these between two events
Delays == {60}

\* --------------------------------------------------------- rationals
Abs(x) == IF x < 0 THEN -x ELSE x

RECURSIVE GCD(_, _)
GCD(a, b) == IF b = 0 THEN a ELSE GCD(b, a % b)

\* the fraction n/d (d # 0) in lowest terms with a positive denominator
Rat(n, d) ==
    LET s == IF d < 0 THEN -1 ELSE 1
        g == GCD(Abs(n), Abs(d))
    IN  <<(s * n) \div g, (s * d) \div g>>

RInt(i) == <<i, 1>>
\* the integer nearest to p (halves go up)
Round(p) == (2 * p[1] + p[2]) \div (2 * p[2])
RAdd(p, q) == Rat(p[1] * q[2] + q[1] * p[2], p[2] * q[2])
RSub(p, q) == Rat(p[1] * q[2] - q[1] * p[2], p[2] * q[2])
RMul(p, q) == Rat(p[1] * q[1], p[2] * q[2])
\* q # 0
RDiv(p, q) == Rat(p[1] * q[2], p[2] * q[1])
RAbs(p) == <<Abs(p[1]), p[2]>>
RLess(p, q) == p[1] * q[2] < q[1] * p[2]
RLeq(p, q) == p[1] * q[2] <= q[1] * p[2]

\* ------------------------------------------------ JavaScript numbers
Undefined == [k |-> "undefined"]
NaN == [k |-> "nan"]
PosInf == [k |-> "inf"]
NegInf == [k |-> "ninf"]
Num(q) == [k |-> "num", q |-> q]
IsNum(v) == v.k = "num"

\* a / b for integers a and b, as JavaScript divides
JsDiv(a, b) ==
    IF b # 0 THEN Num(Rat(a, b))
    ELSE IF a = 0 THEN NaN
    ELSE IF a > 0 THEN PosInf ELSE NegInf

\* v === 0
JsIsZero(v) == IsNum(v) /\ v.q[1] = 0
\* v > 0
JsPositive(v) == v.k = "inf" \/ (IsNum(v) /\ v.q[1] > 0)
\* v < 0
JsNegative(v) == v.k = "ninf" \/ (IsNum(v) /\ v.q[1] < 0)
\* the truthiness of v
JsTruthy(v) == v.k \notin {"undefined", "nan"} /\ ~JsIsZero(v)

VARIABLES
    side,       \* this._side
    vertical,   \* this.vertical
    size,       \* this._size
    content,    \* the extent of the div's content
    auto,       \* this.auto
    duration,   \* this.duration
    ease,       \* this.ease
    opened,     \* this.opened
    down,       \* this.down
    moving,     \* this.moving
    changes,    \* this.changes
    easing,     \* this.easing
    location,   \* this.div.style[this.side]
    bar,        \* this.bar.style[this.side]
    raf,        \* the number of pending requestAnimationFrame callbacks
    now,        \* the clock moment() reads
    presses,    \* history: the number of presses so far
    sets,       \* history: the number of assignments to side or size so far
    calls,      \* history: the number of calls of open/close/toggle so far
    last        \* history: the last operation and what it called

vars == <<side, vertical, size, content, auto, duration, ease, opened, down, moving,
          changes, easing, location, bar, raf, now, presses, calls, sets, last>>

\* this.easing = null
NULL == [active |-> FALSE]
\* this.down = false (also the value before the first press)
NotDown == [pressed |-> FALSE]

\* the object, as the methods below read and return it
This ==
    [side |-> side, vertical |-> vertical, size |-> size,
     content |-> content, auto |-> auto,
     duration |-> duration, ease |-> ease, opened |-> opened, down |-> down,
     moving |-> moving, changes |-> changes, easing |-> easing,
     location |-> location, bar |-> bar, raf |-> raf,
     cmd |-> "none", vel |-> Undefined]

Becomes(s) ==
    /\ side' = s.side
    /\ vertical' = s.vertical
    /\ size' = s.size
    /\ content' = s.content
    /\ auto' = s.auto
    /\ duration' = s.duration
    /\ ease' = s.ease
    /\ opened' = s.opened
    /\ down' = s.down
    /\ moving' = s.moving
    /\ changes' = s.changes
    /\ easing' = s.easing
    /\ location' = s.location
    /\ bar' = s.bar
    /\ raf' = s.raf

\* ----------------------------------------------------------- methods
\* get size: this._size, or the laid-out extent of the div
Size(s) == IF s.size # NoSize THEN s.size ELSE s.content

\* this.div.offsetWidth: the width set by _setSide (the size on a vertical
\* drawer, 100vw on a horizontal one)
OffsetWidth(s) == IF s.vertical THEN Size(s) ELSE InnerWidth

\* _getCurrent(): the laid-out offset of the div from its side, a whole
\* number of pixels; undefined when the side is none of the four cases
GetCurrent(s) ==
    IF s.side \in Sides THEN Num(RInt(Round(s.location))) ELSE Undefined

\* Penner.linear(t, b, c, d) and Penner.easeInQuad(t, b, c, d)
Penner(name, t, b, c, d) ==
    IF d[1] = 0 THEN NaN
    ELSE IF name = "linear"
         THEN Num(RAdd(RDiv(RMul(c, t), d), b))
         ELSE Num(RAdd(RMul(c, RMul(RDiv(t, d), RDiv(t, d))), b))

\* a - i for a number or undefined a and an integer i
JsMinus(a, i) == IF IsNum(a) THEN Num(RSub(a.q, RInt(i))) ELSE NaN

\* Math.abs(v)
JsAbs(v) ==
    IF IsNum(v) THEN Num(RAbs(v.q))
    ELSE IF v.k \in {"inf", "ninf"} THEN PosInf ELSE NaN

\* distance / velocity for a truthy velocity and a finite or NaN distance
DurationAt(distance, velocity) ==
    IF ~IsNum(distance) THEN NaN
    ELSE IF IsNum(velocity) THEN Num(RDiv(distance.q, velocity.q))
    ELSE Num(RInt(0))

\* _openAnimate(velocity)
OpenAnimate(s, velocity) ==
    LET d == IF JsTruthy(velocity)
             THEN DurationAt(Num(RInt(Abs(0 - Size(s)))), velocity)
             ELSE Num(RInt(s.duration))
    IN  [s EXCEPT
            !.easing = [active |-> TRUE, start |-> GetCurrent(s), end |-> 0,
                        time |-> now,
                        ease |-> IF JsTruthy(velocity) THEN "linear" ELSE s.ease,
                        duration |-> d],
            !.raf = @ + 1,
            !.vel = velocity]

\* _closeAnimate(velocity)
CloseAnimate(s, velocity) ==
    LET start == GetCurrent(s)
        d == IF JsTruthy(velocity)
             THEN JsAbs(DurationAt(JsMinus(start, Size(s)), velocity))
             ELSE Num(RInt(s.duration))
    IN  [s EXCEPT
            !.easing = [active |-> TRUE, start |-> start, end |-> -Size(s),
                        time |-> now,
                        ease |-> IF JsTruthy(velocity) THEN "linear" ELSE s.ease,
                        duration |-> d],
            !.raf = @ + 1,
            !.vel = velocity]

\* an open() without its guard
OpenUnguarded(s, noAnimate) ==
    LET s1 == [s EXCEPT !.easing = NULL]
        s2 == IF noAnimate
              THEN [s1 EXCEPT !.location = RInt(0), !.bar = RInt(Size(s1))]
              ELSE OpenAnimate(s1, Undefined)
    IN  [s2 EXCEPT !.opened = TRUE]

\* open(noAnimate)
OpenDrawer(s, noAnimate) ==
    IF s.down.pressed \/ ~s.opened
    THEN LET s1 == [s EXCEPT !.easing = NULL]
             s2 == IF noAnimate
                   THEN [s1 EXCEPT !.location = RInt(0), !.bar = RInt(Size(s1))]
                   ELSE OpenAnimate(s1, Undefined)
         IN  [s2 EXCEPT !.opened = TRUE]
    ELSE s

\* a close() that animates whatever it is told
CloseAlwaysAnimates(s, noAnimate) ==
    IF s.down.pressed \/ s.opened
    THEN [CloseAnimate([s EXCEPT !.easing = NULL], Undefined) EXCEPT !.opened = FALSE]
    ELSE s

\* close(noAnimate)
CloseDrawer(s, noAnimate) ==
    IF s.down.pressed \/ s.opened
    THEN LET s1 == [s EXCEPT !.easing = NULL]
             s2 == IF noAnimate
                   THEN [s1 EXCEPT !.location = RInt(-Size(s1)), !.bar = RInt(0)]
                   ELSE CloseAnimate(s1, Undefined)
         IN  [s2 EXCEPT !.opened = FALSE]
    ELSE s

\* a toggle that ignores the opened flag
ToggleAlwaysOpens(s, noAnimate) ==
    OpenDrawer([s EXCEPT !.cmd = "toggle"], noAnimate)

\* toggle(noAnimate)
ToggleDrawer(s, noAnimate) ==
    LET s1 == [s EXCEPT !.cmd = "toggle"]
    IN  IF s1.opened THEN CloseDrawer(s1, noAnimate) ELSE OpenDrawer(s1, noAnimate)

\* _forceToggle()
ForceToggle(s) ==
    LET s1 == [s EXCEPT !.cmd = "forceToggle"]
    IN  IF 2 * OffsetWidth(s1) > Size(s1)
        THEN OpenDrawer(s1, FALSE)
        ELSE CloseDrawer(s1, FALSE)

\* the loop of _getVelocity(): the index of `current`
RECURSIVE Walk(_, _, _)
Walk(ch, i, current) ==
    IF i < 1 THEN current
    ELSE IF now - ch[i].time > TimeRecent THEN current
    ELSE Walk(ch, i - 1, i)

\* _getVelocity()
GetVelocity(s) ==
    LET n == Len(s.changes)
        current == s.changes[Walk(s.changes, n - 1, n)]
        lastChange == s.changes[n]
        deltaDistance == current.value - lastChange.value
        deltaTime == current.time - lastChange.time
    IN  JsDiv(deltaDistance, deltaTime)

\* Math.abs(velocity) < this.minVelocity
BelowMinVelocity(v) ==
    IsNum(v) /\ RLess(RAbs(v.q), Rat(MinVelocityNum, MinVelocityDen))

\* the velocity branch of _up()
Fling(s) ==
    LET v0 == GetVelocity(s)
    IN  IF JsIsZero(v0) THEN ForceToggle(s)
        ELSE LET v == IF BelowMinVelocity(v0)
                      THEN Num(Rat(MinVelocityNum * (IF JsNegative(v0) THEN -1 ELSE 1),
                                   MinVelocityDen))
                      ELSE v0
             IN  IF JsPositive(v)
                 THEN OpenAnimate([s EXCEPT !.cmd = "openVelocity"], v)
                 ELSE CloseAnimate([s EXCEPT !.cmd = "closeVelocity"], v)

\* an _up() that takes the velocity of any drag that has a sample
UpFlingsShortDrags(s) ==
    IF s.down.pressed
    THEN LET s1 == IF ~s.moving THEN ToggleDrawer(s, FALSE)
                   ELSE IF s.auto
                        THEN IF Len(s.changes) > 0 THEN Fling(s) ELSE ForceToggle(s)
                        ELSE s
         IN  [s1 EXCEPT !.down = NotDown]
    ELSE s

\* an _up() that does not look at this.down
UpWithoutPress(s) ==
    LET s1 == IF ~s.moving THEN ToggleDrawer(s, FALSE)
              ELSE IF s.auto
                   THEN IF Len(s.changes) > 2 THEN Fling(s) ELSE ForceToggle(s)
                   ELSE s
    IN  [s1 EXCEPT !.down = NotDown]

\* _up()
Up(s) ==
    IF s.down.pressed
    THEN LET s1 == IF ~s.moving THEN ToggleDrawer(s, FALSE)
                   ELSE IF s.auto
                        THEN IF Len(s.changes) > 2 THEN Fling(s) ELSE ForceToggle(s)
                        ELSE s
         IN  [s1 EXCEPT !.down = NotDown]
    ELSE s

\* _down(e)
Down(s, e) ==
    [s EXCEPT !.down = [pressed |-> TRUE, x |-> e.pageX, y |-> e.pageY],
              !.changes = <<>>,
              !.moving = FALSE]

\* _checkThreshold(e): the value returned
CheckThreshold(s, e) ==
    IF ~s.moving
    THEN IF s.side \in {"left", "right"}
         THEN Abs(e.pageX - s.down.x) >= Threshold
         ELSE Abs(e.pageY - s.down.y) >= Threshold
    ELSE TRUE

\* the value _move(e) records, before it is clamped
MoveValue(s, e) ==
    IF s.vertical
    THEN IF s.side = "left"
         THEN e.pageX - BarSize \div 2
         ELSE InnerWidth - e.pageX + BarSize \div 2
    ELSE IF s.side = "top"
         THEN e.pageY - BarSize \div 2
         ELSE InnerHeight - e.pageY + BarSize \div 2

\* a clamp that forgets the upper end
ClampLowOnly(s, v) == IF v < 0 THEN 0 ELSE v

\* the two clamping lines of _move(e)
Clamp(s, v) ==
    LET v1 == IF v > Size(s) THEN Size(s) ELSE v
    IN  IF v1 < 0 THEN 0 ELSE v1

\* a _move(e) that records every move of a press
MoveWithoutThreshold(s, e) ==
    IF s.down.pressed
    THEN LET value == Clamp(s, MoveValue(s, e))
         IN  [s EXCEPT !.moving = TRUE,
                       !.location = RInt(value - Size(s)),
                       !.bar = RInt(value),
                       !.changes = Append(@, [value |-> value, time |-> now])]
    ELSE s

\* _move(e)
Move(s, e) ==
    IF s.down.pressed /\ CheckThreshold(s, e)
    THEN LET value == Clamp(s, MoveValue(s, e))
         IN  [s EXCEPT !.moving = TRUE,
                       !.location = RInt(value - Size(s)),
                       !.bar = RInt(value),
                       !.changes = Append(@, [value |-> value, time |-> now])]
    ELSE s

\* update(): one frame callback
Update(s) ==
    IF s.easing # NULL
    THEN LET e == s.easing
             elapsed == RInt(now - e.time)
             \* the comparisons with a NaN duration are false
             t == IF IsNum(e.duration) /\ RLess(e.duration.q, elapsed)
                  THEN e.duration.q ELSE elapsed
             value == IF IsNum(e.start) /\ IsNum(e.duration)
                      THEN Penner(s.ease, t, e.start.q,
                                  RSub(RInt(e.end), e.start.q), e.duration.q)
                      ELSE NaN
             \* a style set to 'NaNpx' keeps its value
             s1 == IF IsNum(value)
                   THEN [s EXCEPT !.location = value.q,
                                  !.bar = RAdd(value.q, RInt(Size(s)))]
                   ELSE s
         IN  IF IsNum(e.duration) /\ t = e.duration.q
             THEN [s1 EXCEPT !.easing = NULL]
             ELSE [s1 EXCEPT !.raf = @ + 1]
    ELSE s

\* _setSide()
SetSideLayout(s) ==
    LET s1 == IF s.opened
              THEN [s EXCEPT !.location = RInt(0), !.bar = RInt(Size(s))]
              ELSE [s EXCEPT !.location = RInt(-Size(s)), !.bar = RInt(0)]
    IN  IF s1.opened THEN OpenDrawer(s1, TRUE) ELSE CloseDrawer(s1, TRUE)

\* set side(value)
SetSide(s, value) ==
    IF s.side # value
    THEN LET s1 == SetSideLayout([s EXCEPT !.side = value,
                                           !.vertical = (value \in {"left", "right"}),
                                           !.cmd = "setSide"])
         IN  IF s1.opened THEN OpenDrawer(s1, TRUE) ELSE s1
    ELSE s

\* set size(value)
SetSize(s, value) ==
    LET s1 == SetSideLayout([s EXCEPT !.size = value, !.cmd = "setSize"])
    IN  IF s1.opened THEN OpenDrawer(s1, FALSE) ELSE s1

\* the frame: every pending callback runs update()
RECURSIVE RunCallbacks(_, _)
RunCallbacks(s, k) == IF k = 0 THEN s ELSE RunCallbacks(Update(s), k - 1)

\* the bar listens for mousedown / touchstart: the pointer is on the bar,
\* which lies BarSize wide at its offset from the drawer's side
OnBar(s, e) ==
    LET p == IF s.vertical THEN e.pageX ELSE e.pageY
        extent == IF s.vertical THEN InnerWidth ELSE InnerHeight
        offset == IF s.side \in {"left", "top"} THEN p ELSE extent - p
    IN  /\ RLeq(s.bar, RInt(offset))
        /\ RLeq(RInt(offset), RAdd(s.bar, RInt(BarSize)))

\* ----------------------------------------------------------- actions
NoEvent == [pageX |-> -1, pageY |-> -1]

\* the history: the operation, its argument, the command _up() gave
\* (toggle, forceToggle, openVelocity, closeVelocity) and the velocity that
\* _openAnimate / _closeAnimate received
Did(op, noAnimate, e, s) ==
    last' = [op |-> op, noAnimate |-> noAnimate, e |-> e,
             cmd |-> s.cmd, vel |-> s.vel]

\* new Drawer(options) with options.size in sizes and options.ease in eases
Constructed(sizes, eases) ==
    /\ side \in OptionSides
    /\ vertical = (side \in {"left", "right"})
    /\ size \in sizes
    /\ content \in Contents
    /\ auto \in BOOLEAN
    /\ duration \in Durations
    /\ ease \in eases
    /\ opened \in BOOLEAN
    /\ down = NotDown
    /\ moving = FALSE
    /\ changes = <<>>
    /\ easing = NULL
    /\ LET extent == IF size # NoSize THEN size ELSE content
       IN  /\ location = RInt(IF opened THEN 0 ELSE -extent)
           /\ bar = RInt(IF opened THEN extent ELSE 0)
    /\ raf = 0
    /\ now = 0
    /\ presses = 0
    /\ calls = 0
    /\ sets = 0
    /\ last = [op |-> "new", noAnimate |-> FALSE, e |-> NoEvent,
               cmd |-> "none", vel |-> Undefined]

Init == Constructed(Sizes, Eases)

\* mousedown / touchstart on the bar
PressStart ==
    \E e \in Events :
        /\ presses < MaxPresses
        /\ presses + calls + sets < MaxOps
        /\ OnBar(This, e)
        /\ presses' = presses + 1
        /\ LET s == Down(This, e)
           IN  Becomes(s) /\ Did("down", FALSE, e, s) /\ UNCHANGED <<now, calls, sets>>

\* mousemove / touchmove
PressMove ==
    \E e \in Events :
        /\ Len(changes) < MaxSamples
        /\ LET s == Move(This, e)
           IN  Becomes(s) /\ Did("move", FALSE, e, s) /\ UNCHANGED <<now, presses, calls, sets>>

\* mouseup / touchend / mouseleave
PressEnd ==
    /\ raf < MaxFrames
    /\ LET s == Up(This)
       IN  Becomes(s) /\ Did("up", FALSE, NoEvent, s) /\ UNCHANGED <<now, presses, calls, sets>>

CallOpen ==
    \E noAnimate \in BOOLEAN :
        /\ raf < MaxFrames
        /\ calls < MaxCalls
        /\ presses + calls + sets < MaxOps
        /\ calls' = calls + 1
        /\ LET s == OpenDrawer(This, noAnimate)
           IN  Becomes(s) /\ Did("open", noAnimate, NoEvent, s) /\ UNCHANGED <<now, presses, sets>>

CallClose ==
    \E noAnimate \in BOOLEAN :
        /\ raf < MaxFrames
        /\ calls < MaxCalls
        /\ presses + calls + sets < MaxOps
        /\ calls' = calls + 1
        /\ LET s == CloseDrawer(This, noAnimate)
           IN  Becomes(s) /\ Did("close", noAnimate, NoEvent, s) /\ UNCHANGED <<now, presses, sets>>

CallToggle ==
    \E noAnimate \in BOOLEAN :
        /\ raf < MaxFrames
        /\ calls < MaxCalls
        /\ presses + calls + sets < MaxOps
        /\ calls' = calls + 1
        /\ LET s == ToggleDrawer(This, noAnimate)
           IN  Becomes(s) /\ Did("toggle", noAnimate, NoEvent, s) /\ UNCHANGED <<now, presses, sets>>

\* drawer.side = value
AssignSide ==
    \E value \in SideValues :
        /\ sets < MaxSets
        /\ presses + calls + sets < MaxOps
        /\ sets' = sets + 1
        /\ LET s == SetSide(This, value)
           IN  Becomes(s) /\ Did("side", FALSE, NoEvent, s) /\ UNCHANGED <<now, presses, calls>>

\* drawer.size = value
AssignSize ==
    \E value \in SizeValues :
        /\ raf < MaxFrames
        /\ sets < MaxSets
        /\ presses + calls + sets < MaxOps
        /\ sets' = sets + 1
        /\ LET s == SetSize(This, value)
           IN  Becomes(s) /\ Did("size", FALSE, NoEvent, s) /\ UNCHANGED <<now, presses, calls>>

\* the browser runs the pending frame callbacks
Frame ==
    /\ raf > 0
    /\ LET s == RunCallbacks([This EXCEPT !.raf = 0], raf)
       IN  Becomes(s) /\ Did("frame", FALSE, NoEvent, s) /\ UNCHANGED <<now, presses, calls, sets>>

\* time passes
Tick ==
    \E dt \in Delays :
        /\ now + dt <= MaxTime
        /\ now' = now + dt
        /\ last' = [op |-> "tick", noAnimate |-> FALSE, e |-> NoEvent,
                    cmd |-> "none", vel |-> Undefined]
        /\ UNCHANGED <<side, vertical, size, content, auto, duration, ease, opened, down,
                       moving, changes, easing, location, bar, raf, presses, calls,
                       sets>>

Next ==
    \/ PressStart
    \/ PressMove
    \/ PressEnd
    \/ CallOpen
    \/ CallClose
    \/ CallToggle
    \/ AssignSide
    \/ AssignSize
    \/ Frame
    \/ Tick

Spec == Init /\ [][Next]_vars

\* the drawers constructed with the default options.auto (true)
InitAuto == Init /\ auto = TRUE
SpecAuto == InitAuto /\ [][Next]_vars

\* the drawers constructed with options.ease = 'easeInQuad' on the left
InitQuad == Constructed(Sizes, {"easeInQuad"}) /\ side = "left" /\ auto = TRUE
SpecQuad == InitQuad /\ [][Next]_vars

\* the content of the drawer changes its extent
ContentResize ==
    \E value \in ContentValues :
        /\ content # value
        /\ sets < MaxSets
        /\ presses + calls + sets < MaxOps
        /\ sets' = sets + 1
        /\ content' = value
        /\ last' = [op |-> "content", noAnimate |-> FALSE, e |-> NoEvent,
                    cmd |-> "none", vel |-> Undefined]
        /\ UNCHANGED <<side, vertical, size, auto, duration, ease, opened, down,
                       moving, changes, easing, location, bar, raf, now,
                       presses, calls>>

\* drawer.update(): the class has two methods of this name and the second,
\* the frame's, is the one an object has
CallUpdate ==
    /\ raf < MaxFrames
    /\ calls < MaxCalls
    /\ presses + calls + sets < MaxOps
    /\ calls' = calls + 1
    /\ LET s == Update(This)
       IN  Becomes(s) /\ Did("update", FALSE, NoEvent, s) /\ UNCHANGED <<now, presses, sets>>

\* the drawers constructed without options.size on the left, whose content
\* changes and whose update() is called
InitLayout == Constructed({NoSize}, Eases) /\ side = "left" /\ auto = TRUE

NextLayout ==
    \/ Next
    \/ ContentResize
    \/ CallUpdate

SpecLayout == InitLayout /\ [][NextLayout]_vars

\* ------------------------------------------------- the earlier class
\* The class of lines 6-424 of the same file hands its jobs to dom-ease
\* (this.ease.add) instead of running update(): _down, _checkThreshold and,
\* on the left side, _move are the handlers above; the release differs.

\* _openAnimate(velocity) of the earlier class: the job given to
\* this.ease.add, no frame requested by the class
OpenAnimateEarlier(s, velocity) ==
    [OpenAnimate(s, velocity) EXCEPT !.raf = s.raf]

\* _closeAnimate(velocity) of the earlier class
CloseAnimateEarlier(s, velocity) ==
    [CloseAnimate(s, velocity) EXCEPT !.raf = s.raf]

\* open(noAnimate) of the earlier class
OpenEarlier(s, noAnimate) ==
    IF s.down.pressed \/ ~s.opened
    THEN LET s1 == [s EXCEPT !.easing = NULL]
             s2 == IF noAnimate
                   THEN [s1 EXCEPT !.location = RInt(0), !.bar = RInt(Size(s1))]
                   ELSE OpenAnimateEarlier(s1, Undefined)
         IN  [s2 EXCEPT !.opened = TRUE]
    ELSE s

\* close(noAnimate) of the earlier class
CloseEarlier(s, noAnimate) ==
    IF s.down.pressed \/ s.opened
    THEN LET s1 == [s EXCEPT !.easing = NULL]
             s2 == IF noAnimate
                   THEN [s1 EXCEPT !.location = RInt(-Size(s1)), !.bar = RInt(0)]
                   ELSE CloseAnimateEarlier(s1, Undefined)
         IN  [s2 EXCEPT !.opened = FALSE]
    ELSE s

\* toggle(noAnimate) of the earlier class
ToggleEarlier(s, noAnimate) ==
    LET s1 == [s EXCEPT !.cmd = "toggle"]
    IN  IF s1.opened THEN CloseEarlier(s1, noAnimate) ELSE OpenEarlier(s1, noAnimate)

\* _forceToggle() of the earlier class
ForceToggleEarlier(s) ==
    LET s1 == [s EXCEPT !.cmd = "forceToggle"]
    IN  IF 2 * OffsetWidth(s1) > Size(s1)
        THEN OpenEarlier(s1, FALSE)
        ELSE CloseEarlier(s1, FALSE)

\* this.minVelocity * (velocity < 0): the boolean counts as 1 or 0
MinVelocityTimes(negative) ==
    IF negative THEN Num(Rat(MinVelocityNum, MinVelocityDen)) ELSE Num(RInt(0))

\* the velocity branch of _up() of the earlier class
FlingEarlier(s) ==
    LET v0 == GetVelocity(s)
    IN  IF JsIsZero(v0) THEN ForceToggleEarlier(s)
        ELSE LET v == IF BelowMinVelocity(v0)
                      THEN MinVelocityTimes(JsNegative(v0))
                      ELSE v0
             IN  IF JsPositive(v)
                 THEN OpenAnimateEarlier([s EXCEPT !.cmd = "openVelocity"], v)
                 ELSE CloseAnimateEarlier([s EXCEPT !.cmd = "closeVelocity"], v)

\* _up() of the earlier class
UpEarlier(s) ==
    IF s.down.pressed
    THEN LET s1 == IF ~s.moving THEN ToggleEarlier(s, FALSE)
                   ELSE IF s.auto
                        THEN IF Len(s.changes) > 2 THEN FlingEarlier(s)
                             ELSE ForceToggleEarlier(s)
                        ELSE s
         IN  [s1 EXCEPT !.down = NotDown]
    ELSE s

\* mouseup / mousecancel / touchend of the earlier class
PressEndEarlier ==
    LET s == UpEarlier(This)
    IN  Becomes(s) /\ Did("up", FALSE, NoEvent, s) /\ UNCHANGED <<now, presses, calls, sets>>

\* new Drawer({ side: 'left', full: true, minVelocity: 0.5, ... }) of the
\* earlier class
InitEarlier == Init /\ side = "left"

NextEarlier ==
    \/ PressStart
    \/ PressMove
    \/ PressEndEarlier
    \/ Tick

SpecEarlier == InitEarlier /\ [][NextEarlier]_vars

\* ------------------------------------------------------------ claims
Pressed == down.pressed
Settled == ~down.pressed /\ easing = NULL
InRange(loc) == RLeq(RInt(-size), loc) /\ RLeq(loc, RInt(0))

C2_DragClamped ==
    [][(last'.op = "move" /\ down.pressed /\ moving') =>
          /\ Len(changes') = Len(changes) + 1
          /\ changes'[Len(changes')].value \in 0..size'
          /\ location' = RInt(changes'[Len(changes')].value - size')
          /\ RLeq(RInt(-size'), location') /\ RLeq(location', RInt(0))]_vars

\* a move whose pointer position lies beyond the drawer's extent
C2_Witness ==
    /\ last.op = "move" /\ down.pressed /\ moving
    /\ MoveValue(This, last.e) > size
    /\ side \in {"right", "bottom"}

\* C3: in every settled state (no press, no job) opened is true exactly
\* when the location is 0 and false exactly when it is -size; in particular
\* after a fling's animation has completed at a boundary.
C3_SettledMatchesOpened ==
    Settled =>
        /\ opened <=> location = RInt(0)
        /\ ~opened <=> location = RInt(-size)

\* C4: whenever the drawer rests at the closed boundary, however it got
\* there, open() starts an opening animation (which then reaches 0), and
\* close() from rest at the open boundary starts a closing animation.
C4_CallFromRestAnimates ==
    [][/\ (last'.op = "open" /\ ~last'.noAnimate /\ Settled
              /\ location = RInt(-size))
           => (easing' # NULL /\ easing'.end = 0)
       /\ (last'.op = "close" /\ ~last'.noAnimate /\ Settled
              /\ location = RInt(0))
           => (easing' # NULL /\ easing'.end = -size)]_vars

\* C5: the animation a release starts from a velocity lasts
\* |target - current location| / |velocity|, for an open (target 0) and for
\* a close (target -size).
C5_FlingDuration ==
    (last.op = "up" /\ last.cmd \in {"openVelocity", "closeVelocity"}
        /\ IsNum(last.vel)) =>
        /\ easing # NULL
        /\ IsNum(easing.duration)
        /\ RMul(easing.duration.q, RAbs(last.vel.q))
               = RAbs(RSub(RInt(easing.end), location))

\* the sample values of the trail grow, that is move toward the open edge
TowardOpen(ch) == \A i \in 1..(Len(ch) - 1) : ch[i].value < ch[i + 1].value

\* C6: the release of a confirmed drag with at least 3 samples that moved
\* monotonically toward the open edge computes a positive velocity and
\* starts the open animation with it, never a close.
C6_TowardOpenFlingsOpen ==
    [][(last'.op = "up" /\ down.pressed /\ moving /\ Len(changes) >= 3
           /\ TowardOpen(changes)) =>
          /\ last'.cmd = "openVelocity"
          /\ JsPositive(last'.vel)
          /\ easing' # NULL /\ easing'.end = 0]_vars

\* what a force-toggle leaves: a job of the configured duration that was
\* given no velocity
ForceToggled ==
    /\ last'.cmd = "forceToggle"
    /\ last'.vel = Undefined
    /\ easing' # NULL
    /\ easing'.duration = Num(RInt(duration))
    /\ easing'.ease = ease

C8_ForceToggleNearer ==
    (last.op = "up" /\ last.cmd = "forceToggle") =>
        /\ easing # NULL
        /\ RLess(RInt(-size), RMul(RInt(2), location)) => easing.end = 0
        /\ RLess(RMul(RInt(2), location), RInt(-size)) => easing.end = -size

\* C9: open() on a drawer whose opened flag is set and that has no press
\* in progress changes nothing: no job, no frame callback, and location
\* and opened as they were.
C9_OpenWhenOpenedIsNoop ==
    [][(last'.op = "open" /\ opened /\ ~down.pressed) =>
          UNCHANGED <<easing, raf, location, bar, opened>>]_vars

\* an animated open() that found the drawer open and at rest
C9_Witness ==
    /\ last.op = "open" /\ ~last.noAnimate
    /\ opened /\ ~down.pressed
    /\ easing = NULL /\ raf = 0 /\ location = RInt(0)

\* C10: close without animation on an opened drawer with no job in
\* progress puts the location at -size at once, clears opened and
\* schedules no frame callback.
C10_CloseNoAnimateSnaps ==
    [][(last'.op = "close" /\ last'.noAnimate /\ opened /\ easing = NULL) =>
          /\ location' = RInt(-size)
          /\ bar' = RInt(0)
          /\ ~opened'
          /\ easing' = NULL
          /\ raf' = raf]_vars

\* a close without animation that moved an open drawer at rest
C10_Witness ==
    /\ last.op = "close" /\ last.noAnimate
    /\ ~opened /\ location = RInt(-size) /\ easing = NULL /\ raf = 0
    /\ calls = 1 /\ presses = 0

\* C11: assigning a different side to a drawer whose opened flag is set
\* leaves opened set, puts the location at 0 on the new side at once and
\* schedules no frame callback; and the frame that follows the assignment
\* leaves the location at 0.
C11_SideSwitchWhileOpen ==
    [][/\ (last'.op = "side" /\ last'.cmd = "setSide" /\ opened) =>
              /\ opened'
              /\ location' = RInt(0)
              /\ raf' = raf
       /\ (last.op = "side" /\ last.cmd = "setSide" /\ opened
              /\ last'.op = "frame") =>
              location' = RInt(0)]_vars

\* C12: at most one frame callback is pending at any time, also when an
\* open, a close or a fling is started while an earlier job is running.
C12_OnePendingFrame == raf <= 1

\* C13: from the move that confirms a drag until the release, no frame
\* callback of a job started before the press changes the location (with
\* no call and no assignment in the run, a job that is active during a
\* press was started by the release of the press before it).
C13_NoTickDuringDrag ==
    [][(down.pressed /\ moving /\ calls = 0 /\ sets = 0
           /\ last'.op = "frame") =>
          location' = location]_vars

\* C14: a mousedown received while a press is active leaves the anchor
\* point, the sample trail and the moving flag of that press unchanged.
C14_SecondPressRejected ==
    [][(last'.op = "down" /\ down.pressed) =>
          UNCHANGED <<down, changes, moving>>]_vars

\* C15: a release that finds no press active (before any press, or the
\* second delivery of a release whose first delivery ended the press)
\* changes nothing: no toggle, no job, no frame callback, and the
\* location, the bar, opened and the sample trail are as they were.
C15_ReleaseWithoutPress ==
    [][(last'.op = "up" /\ ~down.pressed) =>
          /\ last'.cmd = "none"
          /\ UNCHANGED <<opened, easing, raf, location, bar, changes,
                         moving, down>>]_vars

\* a second release after the release of a tap: a release that finds no
\* drag and does not toggle found no press, and the tap's job is intact
C15_Witness ==
    /\ last.op = "up" /\ last.cmd = "none"
    /\ presses = 1 /\ ~moving /\ ~down.pressed
    /\ easing # NULL /\ raf = 1

\* C16: an assignment to side of a value that is none of left, right, top
\* and bottom is rejected: a step that assigns to side does not end with
\* such a value unless side, vertical, location and opened are what they
\* were.
C16_InvalidSideRejected ==
    [][(last'.op = "side" /\ side' \notin Sides) =>
          UNCHANGED <<side, vertical, location, opened>>]_vars

\* C17: the velocity a release hands to _openAnimate or _closeAnimate is a
\* finite number, never NaN and never infinite, also when the samples it
\* compares were taken in the same millisecond.
C17_VelocityFinite ==
    (last.op = "up" /\ last.cmd \in {"openVelocity", "closeVelocity"}) =>
        IsNum(last.vel)

\* C18: on a drawer whose auto option is off no press, move or release
\* changes the location or opened or starts a job.
C18_NoGesturesWhenAutoOff ==
    [][(~auto /\ last'.op \in {"down", "move", "up"}) =>
          UNCHANGED <<location, opened, easing, raf>>]_vars

\* C19: the location lies in [-size, 0] for the current size in every
\* state, at every frame and after an assignment to size.
C19_LocationInRange == InRange(location)

\* C20: when the velocity a release computes is not zero and smaller in
\* magnitude than minVelocity, the animation receives minVelocity with the
\* sign of the computed velocity: a slow drag toward open flings open at
\* +minVelocity, a slow drag toward closed flings closed at -minVelocity.
C20_MinVelocityKeepsSign ==
    [][(last'.op = "up" /\ down.pressed /\ moving /\ auto
           /\ Len(changes) > 2
           /\ BelowMinVelocity(GetVelocity(This))
           /\ ~JsIsZero(GetVelocity(This))) =>
          IF JsPositive(GetVelocity(This))
          THEN /\ last'.cmd = "openVelocity"
               /\ last'.vel = Num(Rat(MinVelocityNum, MinVelocityDen))
          ELSE /\ last'.cmd = "closeVelocity"
               /\ last'.vel = Num(Rat(-MinVelocityNum, MinVelocityDen))]_vars

\* C21: every job ends at its target: the frame that clears the job
\* reference leaves the location exactly at the job's end (0 for an open,
\* -size for a close), whatever duration and velocity the job was given,
\* on a drawer whose side is one of the four.
C21_JobEndsAtTarget ==
    [][(last'.op = "frame" /\ side \in Sides
           /\ easing # NULL /\ easing' = NULL) =>
          location' = RInt(easing.end)]_vars

\* C22: once the job that the release of a confirmed drag started is over,
\* with no other input in the run, the drawer rests at a boundary: the
\* location is 0 or -size, never a value between them.
C22_RestsAtBoundary ==
    (last.op = "frame" /\ Settled /\ moving
        /\ presses = 1 /\ calls = 0 /\ sets = 0) =>
        location \in {RInt(0), RInt(-size)}

\* C23: each frame moves the drawer by the law of its job: a job started
\* with a velocity moves by linear interpolation whatever the configured
\* easing function is, a job of the configured duration moves by the
\* configured easing function (the law _openAnimate and _closeAnimate
\* record in the job).
C23_TickUsesJobLaw ==
    [][(last'.op = "frame" /\ easing # NULL
           /\ IsNum(easing.start) /\ IsNum(easing.duration)
           /\ easing.duration.q[1] # 0) =>
          LET elapsed == RInt(now - easing.time)
              t == IF RLess(easing.duration.q, elapsed)
                   THEN easing.duration.q ELSE elapsed
          IN  location' = Penner(easing.ease, t, easing.start.q,
                                 RSub(RInt(easing.end), easing.start.q),
                                 easing.duration.q).q]_vars

\* p lies between the integers a and b, inclusive, whichever is larger
Between(p, a, b) ==
    \/ RLeq(RInt(a), p) /\ RLeq(p, RInt(b))
    \/ RLeq(RInt(b), p) /\ RLeq(p, RInt(a))

\* C24: whatever time has passed since the last frame, a frame of a job
\* leaves the location between the job's start and its end, and a frame
\* that finds the job's duration elapsed leaves it exactly at the end.
C24_NoOvershoot ==
    [][(last'.op = "frame" /\ easing # NULL
           /\ IsNum(easing.start) /\ IsNum(easing.duration)) =>
          /\ Between(location', easing.start.q[1], easing.end)
          /\ RLeq(easing.duration.q, RInt(now - easing.time)) =>
                 location' = RInt(easing.end)]_vars

\* sample i of the trail is no older than timeRecent at the release
InWindow(i) == now - changes[i].time <= TimeRecent

\* the comparison sample of a release: walking back from the sample before
\* the last, the oldest sample that is in the window together with every
\* sample after it; the last sample itself when the one before it is not
Oldest ==
    CHOOSE k \in 1..Len(changes) :
        /\ \A j \in k..(Len(changes) - 1) : InWindow(j)
        /\ k = 1 \/ ~InWindow(k - 1)

\* C25: the velocity of a release is that of the segment from the oldest
\* sample inside the window to the last sample, and no sample before it
\* counts: a release whose segment rose (toward open) flings open and one
\* whose segment fell flings closed, whatever the drag did before.
C25_FlingFollowsWindow ==
    [][(last'.op = "up" /\ down.pressed /\ moving /\ auto
           /\ Len(changes) > 2) =>
          LET first == changes[Oldest]
              final == changes[Len(changes)]
          IN  /\ first.value < final.value => last'.cmd = "openVelocity"
              /\ first.value > final.value => last'.cmd = "closeVelocity"]_vars

\* the displacement of the event from the anchor of the press along the
\* axis of the side
Displacement(e) ==
    IF side \in {"left", "right"}
    THEN Abs(e.pageX - down.x) ELSE Abs(e.pageY - down.y)

\* what a move that changes nothing leaves
MoveIsNoop == UNCHANGED <<location, bar, changes, moving, easing, raf, opened>>

\* what a move that records leaves, and the empty trail of a new press
MoveRecords ==
    /\ (Len(changes') > Len(changes) => moving')
    /\ (last'.op = "down" => changes' = <<>> /\ ~moving')

\* C26 as stated: a move changes nothing when no press is active and when
\* the displacement from the anchor has not exceeded the threshold (is at
\* most the threshold) and no drag is confirmed; samples are appended only
\* while a drag is confirmed, and every press starts with an empty trail.
C26_MoveBelowThreshold ==
    [][/\ (last'.op = "move" /\ ~down.pressed) => MoveIsNoop
       /\ (last'.op = "move" /\ down.pressed /\ ~moving
              /\ Displacement(last'.e) <= Threshold) => MoveIsNoop
       /\ MoveRecords]_vars

\* C26 as amended: the same with a displacement that has not reached the
\* threshold (is smaller than the threshold); a displacement equal to the
\* threshold confirms the drag and records the first sample.
C26_MoveBelowThresholdAmended ==
    [][/\ (last'.op = "move" /\ ~down.pressed) => MoveIsNoop
       /\ (last'.op = "move" /\ down.pressed /\ ~moving
              /\ Displacement(last'.e) < Threshold) => MoveIsNoop
       /\ (last'.op = "move" /\ down.pressed /\ ~moving
              /\ Displacement(last'.e) = Threshold) =>
              (moving' /\ Len(changes') = 1)
       /\ MoveRecords]_vars

\* a move of a press, off the anchor by less than the threshold, that
\* changed nothing
C26_Witness ==
    /\ last.op = "move" /\ down.pressed /\ ~moving /\ changes = <<>>
    /\ Displacement(last.e) > 0 /\ Displacement(last.e) < Threshold

\* C27: an assignment to size on a drawer whose opened flag is set leaves
\* the drawer open and flush at the new extent: opened stays set, the
\* location is 0, the bar lies at the new size, and the assignment starts
\* no job and requests no frame.
C27_SizeWhileOpen ==
    [][(last'.op = "size" /\ opened) =>
          /\ opened'
          /\ location' = RInt(0)
          /\ bar' = RInt(size')
          /\ raf' = raf
          /\ easing' \in {NULL, easing}]_vars

\* C28: after update() is called on a settled drawer whose size is derived
\* from its content, the location is the boundary that opened indicates for
\* the current extent: 0 when opened, minus the extent otherwise.
C28_UpdateRefreshesLayout ==
    (last.op = "update" /\ Settled /\ size = NoSize /\ side \in Sides) =>
        location = (IF opened THEN RInt(0) ELSE RInt(-Size(This)))

====
